---------------------------- MODULE Spec2Model ----------------------------
(***************************************************************************)
(* The dead-method Clang plugin (most evolved revision of DeadMethod.cpp): *)
(* DeadAction::ParseArgs, DeadAction::CreateASTConsumer and                *)
(* DeadConsumer::HandleTranslationUnit with its DeclCollector, DeclRemover *)
(* and WarnUnused stages, run on one translation unit.                     *)
(*                                                                         *)
(* Strings are sequences of text chunks in which '%' and the character     *)
(* after it are chunks of their own, so that the diagnostic engine's       *)
(* reading of a format string can be followed chunk by chunk.              *)
(***************************************************************************)
EXTENDS Integers, Sequences, FiniteSets, TLC

(* ------------------------------ bounds --------------------------------- *)

\* longest list of plugin arguments
MaxArgs == 2
\* most syntactic declarations of one method (prototype + out-of-class body)
MaxRedecls == 2
\* most method references in the expressions of the unit
MaxUses == 2

(* --------------------------- plugin arguments -------------------------- *)

INCLUDE == <<"include-template-methods">>
HELP == <<"help">>
\* two arguments the plugin does not know
VERBOSE == <<"verbose">>
PERCENT0 == <<"%", "0">>

Options == {INCLUDE, HELP, VERBOSE, PERCENT0}

ArgLists == UNION {[1..n -> Options] : n \in 0..MaxArgs}

Range(s) == {s[i] : i \in DOMAIN s}

(* --------------------- the parsed translation unit --------------------- *)

Classes == {"C", "F", "G"}
ClassOrder == <<"C", "F", "G">>
Methods == {"m1", "m2"}
MethodOrder == <<"m1", "m2">>

NULL == [node |-> "NULL"]

\* a declaration node: one syntactic declaration of the entity `name`
Decl(kind, name, idx) == [node |-> kind, name |-> name, idx |-> idx]

\* Decl::getCanonicalDecl: the first declaration of the entity
getCanonicalDecl(d) == IF d = NULL THEN NULL ELSE [d EXCEPT !.idx = 1]

\* a type as written: the record type of a class, or a typedef naming it
RecordType(c) == [type |-> "Record", cls |-> c]
TypedefType(c) == [type |-> "Typedef", cls |-> c]
NullType == [type |-> "Null"]

\* ASTContext::getRecordType: the one type of all declarations of a class
getRecordType(r) == RecordType(r.name)

\* ASTContext::getCanonicalType(elt).getTypePtrOrNull(): sugar stripped
getCanonicalType(t) == IF t = NullType THEN NullType ELSE RecordType(t.cls)

\* a method that the unit does not declare
NoMethod == [present |-> FALSE]

Method(parent, access, isDefined, kind, templated, redecls) ==
  [present |-> TRUE, parent |-> parent, access |-> access,
   isDefined |-> isDefined, kind |-> kind, templated |-> templated,
   redecls |-> redecls]

\* friend entries: FriendDecl::getFriendDecl() / FriendDecl::getFriendType()
FriendFunction(isDefined) ==
  [friendDecl |-> [node |-> "FunctionDecl", isDefined |-> isDefined],
   friendType |-> NULL]
FriendTemplate ==
  [friendDecl |-> [node |-> "FunctionTemplateDecl", isDefined |-> FALSE],
   friendType |-> NULL]
FriendType(t) == [friendDecl |-> NULL, friendType |-> t]

\* the form of a method reference in an expression
Use(form, d) == [form |-> form, decl |-> d]
FieldDecl == [node |-> "FieldDecl", name |-> "fld", idx |-> 1]

\* the most recent declaration of method m: what a reference resolves to
LastDecl(ms, m) == Decl("CXXMethodDecl", m, ms[m].redecls)

Unit(hasDefinition, recordDecls, friends, methods, uses) ==
  [hasDefinition |-> hasDefinition, recordDecls |-> recordDecls,
   friends |-> friends, methods |-> methods, uses |-> uses]

\* non-decreasing index lists: each multiset of uses is drawn once
Sorted(n, k) == {f \in [1..n -> 1..k] : \A i \in 1..(n - 1) : f[i] <= f[i + 1]}
UseLists(opts) ==
  UNION {{[i \in 1..n |-> opts[f[i]]] : f \in Sorted(n, Len(opts))} : n \in 0..MaxUses}

NoFriends == [c \in Classes |-> <<>>]

(* Units that vary the methods: class C is defined and has no friends; m1  *)
(* is any method of C, declared once or MaxRedecls times; m2 is a plain    *)
(* method of C; G is only declared.                                        *)
M1Shapes ==
  {Method("C", a, d, k, t, n) :
     a \in {"AS_private", "AS_public"}, d \in BOOLEAN,
     k \in {"method", "ctor", "dtor"}, t \in BOOLEAN, n \in {1, MaxRedecls}}
M2Shapes ==
  {Method("C", a, d, "method", FALSE, 1) :
     a \in {"AS_private", "AS_public"}, d \in BOOLEAN}
MethodUseOptions(ms) ==
  << Use("call", LastDecl(ms, "m1")), Use("member", LastDecl(ms, "m1")),
     Use("declref", LastDecl(ms, "m1")), Use("call", LastDecl(ms, "m2")),
     Use("member", FieldDecl) >>
MethodUnits ==
  UNION {
    LET ms == [m \in Methods |-> IF m = "m1" THEN m1 ELSE m2] IN
    {Unit([c \in Classes |-> c # "G"],
          [c \in Classes |-> IF c = "C" THEN MaxRedecls ELSE 1],
          NoFriends, ms, us) : us \in UseLists(MethodUseOptions(ms))}
    : m1 \in M1Shapes, m2 \in M2Shapes}

(* Units that vary the classes and their friends: m1 is a plain private    *)
(* method of C with a body, m2 is absent or a plain method of F.           *)
FriendsOfC ==
  { <<>>, <<FriendFunction(TRUE)>>, <<FriendFunction(FALSE)>>,
    <<FriendTemplate>>, <<FriendType(RecordType("F"))>>,
    <<FriendType(TypedefType("F"))>>,
    <<FriendFunction(TRUE), FriendType(RecordType("F"))>>,
    <<FriendType(RecordType("G")), FriendFunction(TRUE)>> }
FriendsOfF ==
  { <<>>, <<FriendFunction(FALSE)>>, <<FriendType(RecordType("G"))>>,
    <<FriendType(RecordType("C"))>> }
M2OfF ==
  {NoMethod} \cup
  {Method("F", a, d, "method", FALSE, 1) :
     a \in {"AS_private", "AS_public"}, d \in BOOLEAN}
FriendUseOptions(ms) ==
  IF ms["m2"].present
  THEN << Use("member", LastDecl(ms, "m1")), Use("member", LastDecl(ms, "m2")) >>
  ELSE << Use("member", LastDecl(ms, "m1")) >>
FriendUnits ==
  UNION {
    LET ms == [m \in Methods |->
                 IF m = "m1" THEN Method("C", "AS_private", TRUE, "method", FALSE, 1)
                 ELSE m2] IN
    {Unit([c \in Classes |-> IF c = "C" THEN TRUE
                             ELSE IF c = "F" THEN (m2.present \/ defF) ELSE defG],
          [c \in Classes |-> 1],
          [c \in Classes |-> IF c = "C" THEN fc ELSE IF c = "F" THEN ff ELSE <<>>],
          ms, us) : us \in {u \in UseLists(FriendUseOptions(ms)) : Len(u) <= 1}}
    : m2 \in M2OfF, defF \in BOOLEAN, defG \in BOOLEAN,
      fc \in FriendsOfC, ff \in FriendsOfF}

(* The unit the argument lists are tried on: C has an unused private       *)
(* template method and an unused private plain method.                     *)
ArgUnit ==
  Unit([c \in Classes |-> c # "G"], [c \in Classes |-> 1], NoFriends,
       [m \in Methods |-> Method("C", "AS_private", TRUE, "method", m = "m1", 1)],
       <<>>)

(* --------------------------- reading the tree -------------------------- *)

PresentMethods(u) == {m \in Methods : u.methods[m].present}

\* every declaration node of the unit, in the order the traversal meets them:
\* per class its record declarations and the in-class declarations of its
\* methods, then the out-of-class redeclarations
RECURSIVE SeqConcat(_)
SeqConcat(ss) == IF ss = <<>> THEN <<>> ELSE Head(ss) \o SeqConcat(Tail(ss))

ClassDecls(u, c) ==
  [i \in 1..u.recordDecls[c] |-> Decl("CXXRecordDecl", c, i)]
  \o [j \in 1..Len(SelectSeq(MethodOrder,
                    LAMBDA m : u.methods[m].present /\ u.methods[m].parent = c)) |->
        Decl("CXXMethodDecl",
             SelectSeq(MethodOrder,
                    LAMBDA m : u.methods[m].present /\ u.methods[m].parent = c)[j], 1)]
Redeclarations(u, m) ==
  IF u.methods[m].present
  THEN [i \in 1..(u.methods[m].redecls - 1) |-> Decl("CXXMethodDecl", m, i + 1)]
  ELSE <<>>
DeclNodes(u) ==
  SeqConcat([i \in 1..Len(ClassOrder) |-> ClassDecls(u, ClassOrder[i])])
  \o SeqConcat([i \in 1..Len(MethodOrder) |-> Redeclarations(u, MethodOrder[i])])

\* the expression nodes of the unit: a member call is a CXXMemberCallExpr
\* whose callee is a MemberExpr; a bare reference is a DeclRefExpr
ExprNode(k, kind, d) == [id |-> k, node |-> kind, decl |-> d]
ExprNodesOf(k, use) ==
  IF use.form = "call"
  THEN {ExprNode(k, "CXXMemberCallExpr", use.decl), ExprNode(k, "MemberExpr", use.decl)}
  ELSE IF use.form = "member" THEN {ExprNode(k, "MemberExpr", use.decl)}
  ELSE {ExprNode(k, "DeclRefExpr", use.decl)}
ExprNodes(u) == UNION {ExprNodesOf(k, u.uses[k]) : k \in DOMAIN u.uses}

\* accessors of a CXXMethodDecl node d
getParent(u, d) ==
  Decl("CXXRecordDecl", u.methods[d.name].parent, u.recordDecls[u.methods[d.name].parent])
isDefined(u, d) == u.methods[d.name].isDefined
getAccess(u, d) == u.methods[d.name].access
hasDefinition(u, r) == u.hasDefinition[r.name]
getLocation(d) == <<d.name, d.idx>>
getQualifiedNameAsString(u, d) == <<u.methods[d.name].parent, "::", d.name>>

(* ------------------------------- state --------------------------------- *)

VARIABLES
  args,                   \* the plugin arguments of the invocation
  unit,                   \* the translation unit the frontend parsed
  pc,                     \* where the invocation stands
  includeTemplateMethods, \* DeadAction::includeTemplateMethods
  templatesAlso,          \* DeadConsumer::templatesAlso
  errs,                   \* what was written to llvm::errs()
  diags,                  \* the diagnostics reported, in order
  undefinedClasses,       \* HandleTranslationUnit's ClassSet
  unusedPrivateMethods,   \* HandleTranslationUnit's MethodSet
  decls,                  \* declaration nodes the collector has yet to visit
  exprs                   \* expression nodes the remover has yet to visit

vars == <<args, unit, pc, includeTemplateMethods, templatesAlso, errs, diags,
          undefinedClasses, unusedPrivateMethods, decls, exprs>>

(* ---------------------- set manipulation functions --------------------- *)

Contains(set, elt) ==
  LET t == getCanonicalType(elt) IN
  IF t = NullType THEN FALSE ELSE t \in set

Insert(set, elt) ==
  LET t == getCanonicalType(elt) IN
  IF t # NullType THEN set \cup {t} ELSE set

(* ----------------------------- diagnostics ----------------------------- *)

IsPunct(ch) == ch \in {"%", "'", ":", "-", "{", "}", "|", "$"}
IsDigit(ch) == ch \in {"0", "1", "2", "3", "4", "5", "6", "7", "8", "9"}
DigitValue(ch) == CHOOSE n \in 0..9 : <<"0", "1", "2", "3", "4", "5", "6", "7", "8", "9">>[n + 1] = ch

\* The diagnostic engine's reading of a format string with the arguments
\* streamed into the report: text is copied, '%' before punctuation gives
\* that punctuation, "%<n>" gives argument n.  A placeholder with no such
\* argument reads past the arguments given: undefined (ub).
RECURSIVE FormatDiagnostic(_, _)
FormatDiagnostic(DiagStr, Args) ==
  IF DiagStr = <<>> THEN [ub |-> FALSE, out |-> <<>>]
  ELSE IF Head(DiagStr) # "%"
  THEN LET rest == FormatDiagnostic(Tail(DiagStr), Args) IN
       [ub |-> rest.ub, out |-> <<Head(DiagStr)>> \o rest.out]
  ELSE IF Len(DiagStr) >= 2 /\ IsPunct(DiagStr[2])
  THEN LET rest == FormatDiagnostic(Tail(Tail(DiagStr)), Args) IN
       [ub |-> rest.ub, out |-> <<DiagStr[2]>> \o rest.out]
  ELSE IF Len(DiagStr) >= 2 /\ IsDigit(DiagStr[2]) /\ DigitValue(DiagStr[2]) < Len(Args)
  THEN LET rest == FormatDiagnostic(Tail(Tail(DiagStr)), Args) IN
       [ub |-> rest.ub, out |-> Args[DigitValue(DiagStr[2]) + 1] \o rest.out]
  ELSE [ub |-> TRUE, out |-> <<>>]

Diagnostic(level, loc, msg) == [level |-> level, loc |-> loc, msg |-> msg]
NoLocation == <<>>
\* what a build without assertions prints for an undefined placeholder
Garbage == <<"?">>

\* DiagnosticsEngine::Report of a custom diagnostic: the outcomes a build can
\* produce, each [crashed, diag]
Report(level, loc, FormatString, Args) ==
  LET f == FormatDiagnostic(FormatString, Args) IN
  IF f.ub
  THEN {[crashed |-> TRUE, diag |-> NULL],
        [crashed |-> FALSE, diag |-> Diagnostic(level, loc, Garbage)]}
  ELSE {[crashed |-> FALSE, diag |-> Diagnostic(level, loc, f.out)]}

(* ------------------------------ DeadAction ----------------------------- *)

HelpText ==
  <<"DeadMethod plugin: warn if fully defined classes with unused private methods found\n",
    "Available arguments:\n",
    "  help                      print this message\n",
    "  include-template-methods  look for template methods as well\n">>

\* the argument is spliced into the format string of the diagnostic
MakeArgumentError(arg) ==
  Report("Error", NoLocation, <<"invalid argument '">> \o arg \o <<"'">>, <<>>)

ShowHelp(stream) == stream \o HelpText

\* an argument loop that knows "help" as the first argument only
RECURSIVE ParseArgsLoop_HelpFirstOnly(_, _, _, _)
ParseArgsLoop_HelpFirstOnly(as, i, itm, showHelp) ==
  IF i > Len(as)
  THEN [ok |-> TRUE, includeTemplateMethods |-> itm, showHelp |-> showHelp, bad |-> <<>>]
  ELSE IF as[i] = INCLUDE THEN ParseArgsLoop_HelpFirstOnly(as, i + 1, TRUE, showHelp)
  ELSE IF as[i] = HELP /\ i = 1 THEN ParseArgsLoop_HelpFirstOnly(as, i + 1, itm, TRUE)
  ELSE [ok |-> FALSE, includeTemplateMethods |-> itm, showHelp |-> showHelp, bad |-> as[i]]

\* the loop of ParseArgs from argument i on: the first unknown argument
\* ends it
RECURSIVE ParseArgsLoop(_, _, _, _)
ParseArgsLoop(as, i, itm, showHelp) ==
  IF i > Len(as)
  THEN [ok |-> TRUE, includeTemplateMethods |-> itm, showHelp |-> showHelp, bad |-> <<>>]
  ELSE IF as[i] = INCLUDE THEN ParseArgsLoop(as, i + 1, TRUE, showHelp)
  ELSE IF as[i] = HELP THEN ParseArgsLoop(as, i + 1, itm, TRUE)
  ELSE [ok |-> FALSE, includeTemplateMethods |-> itm, showHelp |-> showHelp, bad |-> as[i]]

\* every outcome of ParseArgs(as): [result, includeTemplateMethods, errs, diags]
\* where result is "true", "false" or "crashed"
ParseArgsOutcomes(as, stream, ds) ==
  LET r == ParseArgsLoop(as, 1, FALSE, FALSE) IN
  IF r.ok
  THEN {[result |-> "true", includeTemplateMethods |-> r.includeTemplateMethods,
         errs |-> IF r.showHelp THEN ShowHelp(stream) ELSE stream, diags |-> ds]}
  ELSE {[result |-> IF o.crashed THEN "crashed" ELSE "false",
         includeTemplateMethods |-> r.includeTemplateMethods,
         errs |-> stream,
         diags |-> IF o.crashed THEN ds ELSE Append(ds, o.diag)]
        : o \in MakeArgumentError(r.bad)}

ParseArgs ==
  /\ pc = "ParseArgs"
  /\ \E o \in ParseArgsOutcomes(args, errs, diags) :
       /\ pc' = CASE o.result = "true" -> "CreateASTConsumer"
                  [] o.result = "false" -> "failed"
                  [] OTHER -> "crashed"
       /\ includeTemplateMethods' = o.includeTemplateMethods
       /\ errs' = o.errs
       /\ diags' = o.diags
  /\ UNCHANGED <<args, unit, templatesAlso, undefinedClasses,
                 unusedPrivateMethods, decls, exprs>>

\* the frontend creates the consumer only when ParseArgs returned true, and
\* hands it the unit: HandleTranslationUnit starts with empty sets
CreateASTConsumer ==
  /\ pc = "CreateASTConsumer"
  /\ templatesAlso' = includeTemplateMethods
  /\ undefinedClasses' = {}
  /\ unusedPrivateMethods' = {}
  /\ decls' = DeclNodes(unit)
  /\ exprs' = ExprNodes(unit)
  /\ pc' = "collect"
  /\ UNCHANGED <<args, unit, includeTemplateMethods, errs, diags>>

(* ----------------------------- DeclCollector --------------------------- *)

\* dyn_cast_or_null<kind>(d)
DynCast(kind, d) == IF d # NULL /\ d.node = kind THEN d ELSE NULL

MarkUndefined(undefined, r) == Insert(undefined, getRecordType(r))

\* a collector that takes no method for a template
IsTemplated_Never(u, m) == FALSE

IsTemplated(u, m) == u.methods[m.name].templated

\* a collector that forgets getCanonicalDecl: every declaration is a method
CollectMethod_EveryDecl(u, templates, undefined, privateMethods, d) ==
  LET r == getCanonicalDecl(getParent(u, d))
  IN [undefinedClasses |->
        IF ~isDefined(u, d) THEN Insert(undefined, getRecordType(r)) ELSE undefined,
      privateMethods |->
        IF getAccess(u, d) = "AS_private" /\ (~u.methods[d.name].templated \/ templates)
        THEN privateMethods \cup {d} ELSE privateMethods]

\* the sets after VisitCXXMethodDecl(d)
CollectMethod(u, templates, undefined, privateMethods, d) ==
  LET m == getCanonicalDecl(d)
      r == getCanonicalDecl(getParent(u, m))
  IN [undefinedClasses |->
        IF ~isDefined(u, m) THEN MarkUndefined(undefined, r) ELSE undefined,
      privateMethods |->
        IF getAccess(u, m) = "AS_private" /\ (~IsTemplated(u, m) \/ templates)
        THEN privateMethods \cup {m} ELSE privateMethods]

\* a collector without the record visitor: only methods mark a class
CollectRecord_Skip(u, undefined, d) == undefined

\* the undefined classes after VisitCXXRecordDecl(d)
CollectRecord(u, undefined, d) ==
  LET r == getCanonicalDecl(d) IN
  IF r # NULL /\ ~hasDefinition(u, r) THEN MarkUndefined(undefined, r) ELSE undefined

VisitCXXMethodDecl ==
  /\ pc = "collect"
  /\ decls # <<>>
  /\ Head(decls).node = "CXXMethodDecl"
  /\ LET c == CollectMethod(unit, templatesAlso, undefinedClasses,
                            unusedPrivateMethods, Head(decls))
     IN /\ undefinedClasses' = c.undefinedClasses
        /\ unusedPrivateMethods' = c.privateMethods
  /\ decls' = Tail(decls)
  /\ pc' = IF Tail(decls) = <<>> THEN "remove" ELSE "collect"
  /\ UNCHANGED <<args, unit, includeTemplateMethods, templatesAlso, errs, diags, exprs>>

VisitCXXRecordDecl ==
  /\ pc = "collect"
  /\ decls # <<>>
  /\ Head(decls).node = "CXXRecordDecl"
  /\ undefinedClasses' = CollectRecord(unit, undefinedClasses, Head(decls))
  /\ decls' = Tail(decls)
  /\ pc' = IF Tail(decls) = <<>> THEN "remove" ELSE "collect"
  /\ UNCHANGED <<args, unit, includeTemplateMethods, templatesAlso, errs, diags,
                 unusedPrivateMethods, exprs>>

(* ------------------------------ DeclRemover ---------------------------- *)

\* a remover that erases the declaration referred to, not the canonical one
FlagMethodUsed_NoCanonical(unused, m) ==
  IF m = NULL THEN unused ELSE unused \ {m}

\* a remover that flips membership: a use of a method that is not in the
\* set puts it there
FlagMethodUsed_Toggle(unused, m) ==
  IF m = NULL \/ getCanonicalDecl(m) = NULL THEN unused
  ELSE IF getCanonicalDecl(m) \in unused THEN unused \ {getCanonicalDecl(m)}
  ELSE unused \cup {getCanonicalDecl(m)}

\* remove the method from the unused methods set; ignore NULL silently
FlagMethodUsed(unused, m) ==
  IF m = NULL \/ getCanonicalDecl(m) = NULL THEN unused
  ELSE unused \ {getCanonicalDecl(m)}

\* the traversal reaches the expression nodes in the order of the tree, which
\* is any order here
VisitMemberExpr ==
  /\ pc = "remove"
  /\ \E e \in exprs :
       /\ e.node = "MemberExpr"
       /\ unusedPrivateMethods' =
            FlagMethodUsed(unusedPrivateMethods, DynCast("CXXMethodDecl", e.decl))
       /\ exprs' = exprs \ {e}
  /\ UNCHANGED <<args, unit, pc, includeTemplateMethods, templatesAlso, errs, diags,
                 undefinedClasses, decls>>

\* an expression node of any other kind: DeclRemover has no visitor for it
TraverseStmt ==
  /\ pc = "remove"
  /\ \E e \in exprs :
       /\ e.node # "MemberExpr"
       /\ exprs' = exprs \ {e}
  /\ UNCHANGED <<args, unit, pc, includeTemplateMethods, templatesAlso, errs, diags,
                 undefinedClasses, unusedPrivateMethods, decls>>

(* ------------------------------ DeadConsumer --------------------------- *)

\* a friend check that looks at friend types only
RECURSIVE FriendsDefined_TypesOnly(_, _, _)
FriendsDefined_TypesOnly(undefined, fs, i) ==
  IF i > Len(fs) THEN TRUE
  ELSE IF fs[i].friendType # NULL /\ Contains(undefined, fs[i].friendType) THEN FALSE
  ELSE FriendsDefined_TypesOnly(undefined, fs, i + 1)

\* the friends of a class from the i-th on: all defined
RECURSIVE FriendsDefined(_, _, _)
FriendsDefined(undefined, fs, i) ==
  IF i > Len(fs) THEN TRUE
  ELSE LET fFun == DynCast("FunctionDecl", fs[i].friendDecl)
           fInfo == fs[i].friendType
       IN IF fFun # NULL /\ ~fFun.isDefined THEN FALSE
          ELSE IF fInfo # NULL /\ Contains(undefined, fInfo) THEN FALSE
          ELSE FriendsDefined(undefined, fs, i + 1)

\* a definedness check that follows the friends of friend types as well
IsDefined_Deep(u, undefined, r) ==
  /\ ~Contains(undefined, getRecordType(r))
  /\ FriendsDefined(undefined, u.friends[r.name], 1)
  /\ \A i \in DOMAIN u.friends[r.name] :
       u.friends[r.name][i].friendType # NULL =>
         FriendsDefined(undefined, u.friends[u.friends[r.name][i].friendType.cls], 1)

\* if the class is defined and its friend functions/friend classes' methods
\* are all defined
IsDefined(u, undefined, r) ==
  IF Contains(undefined, getRecordType(r)) THEN FALSE
  ELSE FriendsDefined(undefined, u.friends[r.name], 1)

\* a reporter that spares constructors only
IsCtorOrDtor_CtorOnly(u, m) == u.methods[m.name].kind = "ctor"

IsCtorOrDtor(u, m) == u.methods[m.name].kind \in {"ctor", "dtor"}

MakeUnusedWarning(u, m) ==
  Report("Warning", getLocation(m),
         <<"private method ", "%", "0", " seems to be unused">>,
         <<getQualifiedNameAsString(u, m)>>)

\* the loop of WarnUnused over the set in the iteration order `order`:
\* every outcome [crashed, diags]
RECURSIVE WarnUnusedLoop(_, _, _, _)
WarnUnusedLoop(u, undefined, order, ds) ==
  IF order = <<>> THEN {[crashed |-> FALSE, diags |-> ds]}
  ELSE LET m == Head(order) IN
       IF ~IsDefined(u, undefined, getParent(u, m)) THEN
         WarnUnusedLoop(u, undefined, Tail(order), ds)
       ELSE IF IsCtorOrDtor(u, m) THEN
         WarnUnusedLoop(u, undefined, Tail(order), ds)
       ELSE UNION {IF o.crashed THEN {[crashed |-> TRUE, diags |-> ds]}
                   ELSE WarnUnusedLoop(u, undefined, Tail(order), Append(ds, o.diag))
                   : o \in MakeUnusedWarning(u, m)}

\* the iteration orders of a DenseSet
Orders(S) ==
  {f \in [1..Cardinality(S) -> S] : \A i, j \in 1..Cardinality(S) : f[i] = f[j] => i = j}

WarnUnused ==
  /\ pc = "remove"
  /\ exprs = {}
  /\ \E order \in Orders(unusedPrivateMethods) :
       \E o \in WarnUnusedLoop(unit, undefinedClasses, order, diags) :
         /\ diags' = o.diags
         /\ pc' = IF o.crashed THEN "crashed" ELSE "done"
  /\ UNCHANGED <<args, unit, includeTemplateMethods, templatesAlso, errs,
                 undefinedClasses, unusedPrivateMethods, decls, exprs>>

(* ---------------------------- specification ---------------------------- *)

\* the invocations checked: every argument list on one unit, the units that
\* vary the methods without arguments and, where m1 is a template, with
\* "include-template-methods", and the units that vary the friends

Inputs ==
  (ArgLists \X {ArgUnit})
  \cup ({<<>>} \X MethodUnits)
  \cup ({<<INCLUDE>>} \X {u \in MethodUnits : u.methods["m1"].templated})
  \cup ({<<>>} \X FriendUnits)

Init ==
  /\ \E input \in Inputs : args = input[1] /\ unit = input[2]
  /\ pc = "ParseArgs"
  /\ includeTemplateMethods = FALSE
  /\ templatesAlso = FALSE
  /\ errs = <<>>
  /\ diags = <<>>
  /\ undefinedClasses = {}
  /\ unusedPrivateMethods = {}
  /\ decls = <<>>
  /\ exprs = {}

Next ==
  \/ ParseArgs
  \/ CreateASTConsumer
  \/ VisitCXXRecordDecl
  \/ VisitCXXMethodDecl
  \/ VisitMemberExpr
  \/ TraverseStmt
  \/ WarnUnused

Spec == Init /\ [][Next]_vars

(* ------------------------- vocabulary of the claims -------------------- *)

\* the identity of method m: its canonical declaration
MethodId(m) == Decl("CXXMethodDecl", m, 1)
ParentOf(m) == unit.methods[m].parent

CollectorFinished == pc \in {"remove", "done"}
RemoverFinished == (pc = "remove" /\ exprs = {}) \/ pc = "done"

InUndefinedClassSet(c) == RecordType(c) \in undefinedClasses

UnusedMessage(m) ==
  <<"private method ", ParentOf(m), "::", m, " seems to be unused">>

\* the diagnostics that name method m
DiagnosticsFor(m) ==
  {i \in DOMAIN diags :
     \/ diags[i].msg = UnusedMessage(m)
     \/ (diags[i].loc # NoLocation /\ diags[i].loc[1] = m)}

\* a friend that is a function (or function template) has a body; a friend
\* that is a type is not in UndefinedClassSet
FriendFullyDefined(f) ==
  /\ f.friendDecl # NULL => f.friendDecl.isDefined
  /\ f.friendType # NULL => ~InUndefinedClassSet(f.friendType.cls)
EveryFriendFullyDefined(c) ==
  \A i \in DOMAIN unit.friends[c] : FriendFullyDefined(unit.friends[c][i])

\* the expression nodes that refer to method m
References(m) ==
  {e \in ExprNodes(unit) : e.decl.node = "CXXMethodDecl" /\ e.decl.name = m}

(* ------------------------------- claims -------------------------------- *)

\* C1: when the pass has finished, every private method that is still in
\* the private-method set (collected, never recognised as used), whose class
\* is not in UndefinedClassSet, all of whose class's friends are fully
\* defined, and that is neither constructor nor destructor, is named by
\* exactly one diagnostic: a warning "private method <qualified-name> seems
\* to be unused" at the method's declared location.
C1_ExactlyOneWarning ==
  pc = "done" =>
    \A m \in PresentMethods(unit) :
      ( /\ unit.methods[m].access = "AS_private"
        /\ MethodId(m) \in unusedPrivateMethods
        /\ ~InUndefinedClassSet(ParentOf(m))
        /\ EveryFriendFullyDefined(ParentOf(m))
        /\ unit.methods[m].kind = "method" )
      => /\ Cardinality(DiagnosticsFor(m)) = 1
         /\ \A i \in DiagnosticsFor(m) :
              diags[i] = Diagnostic("Warning", getLocation(MethodId(m)), UnusedMessage(m))

\* C1's case: an unused private method with two declarations, reported once
C1_Witness ==
  /\ pc = "done"
  /\ unit.methods["m1"].access = "AS_private"
  /\ unit.methods["m1"].redecls >= 2
  /\ unit.methods["m1"].kind = "method"
  /\ MethodId("m1") \in unusedPrivateMethods
  /\ ~InUndefinedClassSet("C")
  /\ Cardinality(DiagnosticsFor("m1")) = 1

\* C2: once the Usage Remover has run, no private method that the unit
\* references by a member call, a member access or a bare value reference
\* is left in the private-method set.
C2_EveryUseFormErases ==
  RemoverFinished =>
    \A m \in PresentMethods(unit) :
      References(m) # {} => MethodId(m) \notin unusedPrivateMethods

\* C3: when the pass has finished, no diagnostic names a method of a class
\* that is not in UndefinedClassSet but declares a friend function without a
\* body.
C3_FriendFunctionGating ==
  pc = "done" =>
    \A c \in Classes :
      ( /\ ~InUndefinedClassSet(c)
        /\ \E i \in DOMAIN unit.friends[c] :
             /\ unit.friends[c][i].friendDecl.node = "FunctionDecl"
             /\ ~unit.friends[c][i].friendDecl.isDefined )
      => \A m \in PresentMethods(unit) : ParentOf(m) = c => DiagnosticsFor(m) = {}

\* C3's case: an unused private method of a fully defined class whose friend
\* function has no body
C3_Witness ==
  /\ pc = "done"
  /\ ~InUndefinedClassSet("C")
  /\ unit.friends["C"] = <<FriendFunction(FALSE)>>
  /\ MethodId("m1") \in unusedPrivateMethods
  /\ diags = <<>>

\* C4: no diagnostic ever names a constructor or a destructor.
C4_NoCtorDtorDiagnostic ==
  \A m \in PresentMethods(unit) :
    unit.methods[m].kind \in {"ctor", "dtor"} => DiagnosticsFor(m) = {}

\* C4's case: an unused private constructor of an eligible class reaches the
\* Reporter, which reports the other method of the class
C4_Witness ==
  /\ pc = "done"
  /\ unit.methods["m1"].kind = "ctor"
  /\ MethodId("m1") \in unusedPrivateMethods
  /\ ~InUndefinedClassSet("C")
  /\ DiagnosticsFor("m2") # {}

\* C5: once the Collector has finished, a class is in UndefinedClassSet if
\* and only if it has no definition body or one of the methods declared on
\* it has no body.
C5_UndefinedClassSet ==
  CollectorFinished =>
    \A c \in Classes :
      InUndefinedClassSet(c) <=>
        \/ ~unit.hasDefinition[c]
        \/ \E m \in PresentMethods(unit) : ParentOf(m) = c /\ ~unit.methods[m].isDefined

\* C5's case: a class with a body is in the set for a public template method
\* without a body, beside a class without body and without methods
C5_Witness ==
  /\ CollectorFinished
  /\ unit.hasDefinition["C"] /\ InUndefinedClassSet("C")
  /\ unit.methods["m1"].access = "AS_public" /\ unit.methods["m1"].templated
  /\ ~unit.methods["m1"].isDefined /\ unit.methods["m2"].isDefined
  /\ ~unit.hasDefinition["G"] /\ InUndefinedClassSet("G")
  /\ ~InUndefinedClassSet("F")

\* what the unit alone says of a class and of a method
UnitUndefined(c) ==
  \/ ~unit.hasDefinition[c]
  \/ \E m \in PresentMethods(unit) : ParentOf(m) = c /\ ~unit.methods[m].isDefined
UnitFriendGate(c) ==
  \E i \in DOMAIN unit.friends[c] :
    LET f == unit.friends[c][i] IN
    \/ f.friendDecl.node = "FunctionDecl" /\ ~f.friendDecl.isDefined
    \/ f.friendType # NULL /\ UnitUndefined(f.friendType.cls)
MemberExprOf(m) == {e \in References(m) : e.node = "MemberExpr"}
UnitReportable(m) ==
  /\ unit.methods[m].access = "AS_private"
  /\ unit.methods[m].kind = "method"
  /\ MemberExprOf(m) = {}
  /\ ~UnitUndefined(ParentOf(m))
  /\ ~UnitFriendGate(ParentOf(m))
OptionPresent == INCLUDE \in Range(args)

\* C6: an unused private template method of an eligible class gets one
\* warning when "include-template-methods" is among the arguments and none
\* when it is not; whether a non-template method gets its warning is
\* decided by the unit alone; and the set the Collector hands on holds the
\* private methods that are no templates, plus the private template methods
\* exactly when the option is present.
C6_TemplateOption ==
  /\ pc = "done" =>
       \A m \in PresentMethods(unit) :
         IF unit.methods[m].templated
         THEN UnitReportable(m) =>
                Cardinality(DiagnosticsFor(m)) = (IF OptionPresent THEN 1 ELSE 0)
         ELSE Cardinality(DiagnosticsFor(m)) = (IF UnitReportable(m) THEN 1 ELSE 0)
  /\ (pc = "remove" /\ exprs = ExprNodes(unit)) =>
       unusedPrivateMethods =
         {MethodId(m) : m \in {x \in PresentMethods(unit) :
             /\ unit.methods[x].access = "AS_private"
             /\ (~unit.methods[x].templated \/ OptionPresent)}}

\* C6's case: the option is given and the unused private template method is
\* reported once, beside the non-template method
C6_Witness ==
  /\ pc = "done"
  /\ OptionPresent
  /\ unit.methods["m1"].templated /\ UnitReportable("m1") /\ UnitReportable("m2")
  /\ Cardinality(DiagnosticsFor("m1")) = 1
  /\ Cardinality(DiagnosticsFor("m2")) = 1

Recognised(a) == a \in {INCLUDE, HELP}
ErrorsReported == SelectSeq(diags, LAMBDA d : d.level = "Error")
WarningsReported == SelectSeq(diags, LAMBDA d : d.level = "Warning")

\* C7: once the arguments are parsed, a list holding an argument that is
\* neither "include-template-methods" nor "help" has made ParseArgs report
\* one error diagnostic naming such an argument and return false, so that
\* no consumer runs, no warning is reported and nothing has crashed.
C7_InvalidArgumentReported ==
  (pc # "ParseArgs" /\ \E i \in DOMAIN args : ~Recognised(args[i])) =>
    /\ pc = "failed"
    /\ \E i \in DOMAIN args :
         /\ ~Recognised(args[i])
         /\ diags = <<Diagnostic("Error", NoLocation,
                                 <<"invalid argument '">> \o args[i] \o <<"'">>)>>

\* C8 as stated: "help" anywhere in the list makes the pass emit the usage
\* description.
C8_HelpAlwaysShown ==
  (pc # "ParseArgs" /\ HELP \in Range(args)) => errs = HelpText

ResultOfParseArgs ==
  CASE pc = "failed" -> "false" [] pc = "crashed" -> "crashed" [] OTHER -> "true"

\* C8 as amended: the usage description is emitted, once, exactly when
\* "help" is in the list and every argument of the list is recognised; the
\* result of ParseArgs, the template setting and the error diagnostics are
\* those of the same list with every "help" taken out, and the consumer is
\* created with that template setting.
C8_HelpShownWhenAllRecognised ==
  pc # "ParseArgs" =>
    /\ errs = (IF HELP \in Range(args) /\ \A i \in DOMAIN args : Recognised(args[i])
               THEN HelpText ELSE <<>>)
    /\ \E o \in ParseArgsOutcomes(SelectSeq(args, LAMBDA a : a # HELP), <<>>, <<>>) :
         /\ o.result = ResultOfParseArgs
         /\ o.includeTemplateMethods = includeTemplateMethods
         /\ o.diags = ErrorsReported
    /\ pc \in {"collect", "remove", "done"} =>
         templatesAlso = (INCLUDE \in Range(SelectSeq(args, LAMBDA a : a # HELP)))

\* C8's case: "help" after another argument; the usage text is out and the
\* pass has reported both unused methods, the template one included
C8_Witness ==
  /\ pc = "done"
  /\ args = <<INCLUDE, HELP>>
  /\ errs = HelpText
  /\ Len(WarningsReported) = 2

\* C9: at every point of the Usage Remover's traversal, whatever the order
\* of the expression nodes, the private-method set is the set the Collector
\* built minus the methods of the member expressions visited so far; when
\* the traversal ends it is the collected set minus the used methods.
C9_RemovalIsSetDifference ==
  pc \in {"remove", "done"} =>
    unusedPrivateMethods =
      {MethodId(m) : m \in {x \in PresentMethods(unit) :
          /\ unit.methods[x].access = "AS_private"
          /\ (~unit.methods[x].templated \/ templatesAlso)}}
      \ {MethodId(e.decl.name) : e \in {x \in ExprNodes(unit) \ exprs :
            x.node = "MemberExpr" /\ x.decl.node = "CXXMethodDecl"}}

\* C9's case: the same private method used twice through its second
\* declaration and a field used once; the method is gone, the other stays
C9_Witness ==
  /\ RemoverFinished
  /\ Len(unit.uses) = 2
  /\ unit.uses[1] = unit.uses[2]
  /\ unit.uses[1] = Use("member", Decl("CXXMethodDecl", "m1", 2))
  /\ unit.methods["m1"].access = "AS_private" /\ ~unit.methods["m1"].templated
  /\ unit.methods["m2"].access = "AS_private"
  /\ unusedPrivateMethods = {MethodId("m2")}

\* the check of one friend entry, one level deep
FriendPasses(f) ==
  /\ f.friendDecl.node = "FunctionDecl" => f.friendDecl.isDefined
  /\ f.friendType # NULL => ~InUndefinedClassSet(f.friendType.cls)

\* C10: when the pass has finished, for a class that is not in
\* UndefinedClassSet: if one of its friend types is in UndefinedClassSet
\* none of its methods is reported; if each of its friends passes the
\* one-level check, each of its private methods that is left in the set and
\* is neither constructor nor destructor is reported, whatever the friends
\* of its friend types are.
C10_FriendTypeOneLevel ==
  pc = "done" =>
    \A c \in Classes : ~InUndefinedClassSet(c) =>
      /\ (\E i \in DOMAIN unit.friends[c] :
            /\ unit.friends[c][i].friendType # NULL
            /\ InUndefinedClassSet(unit.friends[c][i].friendType.cls))
         => \A m \in PresentMethods(unit) : ParentOf(m) = c => DiagnosticsFor(m) = {}
      /\ (\A i \in DOMAIN unit.friends[c] : FriendPasses(unit.friends[c][i]))
         => \A m \in PresentMethods(unit) :
              ( /\ ParentOf(m) = c
                /\ MethodId(m) \in unusedPrivateMethods
                /\ unit.methods[m].kind = "method" )
              => Cardinality(DiagnosticsFor(m)) = 1

\* C10's case: C's friend type F is fully defined, F's own friend type G is
\* in UndefinedClassSet, and C's unused private method is reported
C10_Witness ==
  /\ pc = "done"
  /\ unit.friends["C"] = <<FriendType(RecordType("F"))>>
  /\ ~InUndefinedClassSet("C") /\ ~InUndefinedClassSet("F")
  /\ unit.friends["F"] = <<FriendType(RecordType("G"))>>
  /\ InUndefinedClassSet("G")
  /\ Cardinality(DiagnosticsFor("m1")) = 1

\* C11: once the Collector has finished, every step of the Usage Remover and
\* of the Reporter leaves the private-method set equal to or a subset of
\* what it was (no method is inserted again) and leaves UndefinedClassSet
\* as it was.
C11_SetsOnlyShrinkAfterCollection ==
  [][CollectorFinished =>
       /\ unusedPrivateMethods' \subseteq unusedPrivateMethods
       /\ undefinedClasses' = undefinedClasses]_vars

\* C11's case: after collection the remover has erased a private method and
\* visited a use of a public one, the reporter has run, and UndefinedClassSet
\* holds a class
C11_Witness ==
  /\ pc = "done"
  /\ unit.methods["m1"].access = "AS_private" /\ ~unit.methods["m1"].templated
  /\ unit.methods["m2"].present /\ unit.methods["m2"].access = "AS_public"
  /\ Len(unit.uses) = 2
  /\ unit.uses[1].form = "member" /\ unit.uses[1].decl.name = "m1"
  /\ unit.uses[2].form = "call" /\ unit.uses[2].decl.name = "m2"
  /\ unusedPrivateMethods = {}
  /\ undefinedClasses # {}

====
